---- MODULE Spec2Model ----
(***************************************************************************)
(* Kimberley signage survey: the Cluster Engine (src/src/cluster.ts) and   *)
(* the Intersection Matcher (src/src/enrich.ts).                           *)
(*                                                                         *)
(* Numbers.  Coordinates are metres in a local survey frame (lat = metres  *)
(* north, lon = metres east).  The coordinates of photos and trails are    *)
(* integers; a computed coordinate is an exact rational [num, den] in      *)
(* lowest terms, so that the arithmetic mean is held exactly.  A turf      *)
(* point is [lat, lon, den], standing for (lat/den, lon/den).  A distance  *)
(* is held as its exact rational square [num, den] (distance^2 = num/den   *)
(* m^2); comparisons of distances are comparisons of squares, and          *)
(* Math.round(d * 100) / 100 is an integer number of centimetres.  Array   *)
(* indices are 1-based here and 0-based in the source.                     *)
(***************************************************************************)
EXTENDS Integers, Sequences, FiniteSets, TLC

VARIABLES
    files,          \* the image files of photos_path, in readdir order
    cpc,            \* position of the cluster.ts run
    photos,         \* PhotoMeta[] loaded by loadPhotoMeta
    skipped,        \* console.warn "Skipping <name> (no GPS)" lines
    parent,         \* the union-find parent array
    ci, cj,         \* loop counters: ci of the loop of loadPhotoMeta, then ci, cj
                    \* of singleLinkageCluster
    clusters,       \* the Map root -> indices, in insertion order
    pending,        \* pairs not yet examined (arbitrary-order schedule only)
    clustersFile,   \* data/clusters.json
    runs,           \* number of cluster.ts runs started
    prevClusters,   \* data/clusters.json as the previous run left it
    trailsFile,     \* data/trails.json
    mpc,            \* position of the enrich.ts run
    merr,           \* the console.error line of a fatal enrich.ts run
    clustersData,   \* the parsed data/clusters.json
    trails,         \* the LineString features of data/trails.json
    mk,             \* index of the cluster the loop of line 50 is at
    intersecting,   \* indices in trails of the trails matched by the last cluster
    features,       \* the Feature[] built so far
    csvRows,        \* the string[][] built so far
    warnings,       \* console.warn lines of the enrich.ts run
    geojsonFile,    \* data/intersections.geojson
    csvFile,        \* data/intersections.csv
    readyAtStart,   \* history: both input files were complete when the enrich.ts run began
    trailSource     \* the trail features the trail-acquisition stage writes from its input

cvars == <<files, cpc, photos, skipped, parent, ci, cj, clusters, pending,
           clustersFile, runs, prevClusters>>

mvars == <<trailsFile, mpc, merr, clustersData, trails, mk, intersecting,
           features, csvRows, warnings, geojsonFile, csvFile, readyAtStart,
           trailSource>>

vars == <<cvars, mvars>>

----------------------------------------------------------------------------
(* Bounds of the model *)

MaxFiles == 3
GridMax == 3
MaxRuns == 2
MaxTrails == 2
MaxMatcherFiles == 2
LineMax == 4
MaxBuffer == 4

(* config.ts *)
cluster_threshold_m == 30
intersection_buffer_m == 30

(* config.ts, lines 7-8 *)
clusters_path == "data/clusters.json"
trails_path == "data/trails.json"

(* A file that does not exist *)
Missing == [missing |-> TRUE]

(* A file whose text is not JSON *)
Malformed == [malformed |-> TRUE]

(* the console.error line of a run that has not failed *)
NoError == [error |-> "", path |-> "", run |-> ""]

----------------------------------------------------------------------------
(* Exact arithmetic on non-negative rationals *)

Abs(x) == IF x < 0 THEN -x ELSE x

RECURSIVE Gcd(_, _)
Gcd(a, b) == IF b = 0 THEN a ELSE Gcd(b, a % b)

(* a/b <= c/d for a, c >= 0 and b, d > 0, without forming a*d or c*b *)
RECURSIVE FracLeq(_, _, _, _)
FracLeq(a, b, c, d) ==
    LET qa == a \div b
        qc == c \div d
        ra == a % b
        rc == c % d
    IN  IF qa # qc THEN qa < qc
        ELSE IF ra = 0 THEN TRUE
        ELSE IF rc = 0 THEN FALSE
        ELSE FracLeq(d, rc, b, ra)

(* floor(a / b) for b > 0 *)
Floor(a, b) == a \div b

(* the number n / d, d > 0, in lowest terms *)
Rat(n, d) == LET g == Gcd(Abs(n), d) IN [num |-> n \div g, den |-> d \div g]

Whole(n) == [num |-> n, den |-> 1]

Lcm(a, b) == (a \div Gcd(a, b)) * b

----------------------------------------------------------------------------
(* @turf/helpers point, @turf/distance *)

point(lon, lat) ==
    LET den == Lcm(lat.den, lon.den)
    IN  [lat |-> lat.num * (den \div lat.den),
         lon |-> lon.num * (den \div lon.den),
         den |-> den]

(* distance between two points, as the exact square of the metres *)
distance(a, b) ==
    LET dlat == a.lat * b.den - b.lat * a.den
        dlon == a.lon * b.den - b.lon * a.den
    IN  [num |-> dlat * dlat + dlon * dlon,
         den |-> (a.den * b.den) * (a.den * b.den)]

(* d <= cm / 100 metres *)
DistLeq(d, cm) == FracLeq(d.num, d.den, cm * cm, 10000)

(* d1 <= d2 *)
DistLeqDist(d1, d2) == FracLeq(d1.num, d1.den, d2.num, d2.den)

DistMax(d1, d2) == IF DistLeqDist(d1, d2) THEN d2 ELSE d1

Zero == [num |-> 0, den |-> 1]

(* Math.round(d * 100): the k with k - 1/2 <= 100 d < k + 1/2 *)
RoundsAtLeast(d, k) == k = 0 \/ FracLeq((2 * k - 1) * (2 * k - 1), 40000, d.num, d.den)

RECURSIVE RoundSearch(_, _, _)
RoundSearch(d, lo, hi) ==
    IF hi - lo <= 1 THEN lo
    ELSE LET mid == (lo + hi) \div 2
         IN  IF RoundsAtLeast(d, mid) THEN RoundSearch(d, mid, hi)
             ELSE RoundSearch(d, lo, mid)

RECURSIVE RoundTop(_, _)
RoundTop(d, hi) == IF RoundsAtLeast(d, hi) THEN RoundTop(d, 2 * hi) ELSE hi

Round2(d) == RoundSearch(d, 0, RoundTop(d, 1))

----------------------------------------------------------------------------
(* ngeohash.encode(lat, lon, 6): the cell of a fixed grid that holds the   *)
(* point.  The survey frame's origin lies inside a cell, 22 m south and    *)
(* 37 m west of the cell's north-east corner.                              *)

GeohashCell(lat, lon) ==
    <<Floor(lat.num + 588 * lat.den, 610 * lat.den),
      Floor(lon.num + 753 * lon.den, 790 * lon.den)>>

----------------------------------------------------------------------------
(* Inputs *)

Coords == {15 * k : k \in 0..GridMax}

LonCoords == {0, 15}

NoGps == <<>>

(* photos on a lattice of 15 m, one of them possibly without GPS tags *)
GpsValues == {NoGps} \cup {<<lat, lon>> : lat \in Coords, lon \in LonCoords}

(* photos with GPS along the meridian lon = 0, every 15 m *)
LineGps == {<<15 * k, 0>> : k \in 0..LineMax}

MkFiles(g) == [i \in 1..Len(g) |-> [filename |-> i, gps |-> g[i]]]

Directories == {MkFiles(g) : g \in UNION {[1..n -> GpsValues] : n \in 0..MaxFiles}}

(* photos with GPS on the meridian lon = 0 at 0 m, 30 m and 45 m, and one
   photo east of it: 0-30 and 30-45 are within the threshold, 0-45 is not *)
OrderGps == {<<0, 0>>, <<30, 0>>, <<45, 0>>, <<15, 15>>}

GpsDirectories == {MkFiles(g) : g \in UNION {[1..n -> OrderGps] : n \in 0..MaxFiles}}

LineDirectories ==
    {MkFiles(g) : g \in UNION {[1..n -> LineGps] : n \in 0..MaxMatcherFiles}}

----------------------------------------------------------------------------
(* loadPhotoMeta *)

extractGps(f) == f.gps

(* a photo without GPS kept at lat 0, lon 0 *)
loadPhotoMetaOrigin(fs) ==
    [i \in 1..Len(fs) |->
        IF extractGps(fs[i]) = NoGps
        THEN [filename |-> fs[i].filename, lat |-> 0, lon |-> 0]
        ELSE [filename |-> fs[i].filename,
              lat |-> extractGps(fs[i])[1], lon |-> extractGps(fs[i])[2]]]

RECURSIVE loadPhotoMeta(_)
loadPhotoMeta(fs) ==
    IF fs = <<>> THEN <<>>
    ELSE LET f == Head(fs)
             gps == extractGps(f)
         IN  IF gps = NoGps THEN loadPhotoMeta(Tail(fs))
             ELSE <<[filename |-> f.filename, lat |-> gps[1], lon |-> gps[2]]>>
                  \o loadPhotoMeta(Tail(fs))

RECURSIVE SkippedNames(_)
SkippedNames(fs) ==
    IF fs = <<>> THEN <<>>
    ELSE IF extractGps(Head(fs)) = NoGps
         THEN <<Head(fs).filename>> \o SkippedNames(Tail(fs))
         ELSE SkippedNames(Tail(fs))

----------------------------------------------------------------------------
(* unionFind *)

NewParent(n) == [i \in 1..n |-> i]

(* find that stops at parent[i] *)
findParent(p, i) == [parent |-> p, root |-> p[i]]

RECURSIVE find(_, _)
find(p, i) ==
    IF p[i] # i
    THEN LET r == find(p, p[i])
         IN  [parent |-> [r.parent EXCEPT ![i] = r.root], root |-> r.root]
    ELSE [parent |-> p, root |-> i]

(* parent[i] = b in place of parent[a] = b *)
unionIndex(p, i, j) ==
    LET a == find(p, i)
        b == find(a.parent, j)
    IN  IF a.root # b.root THEN [b.parent EXCEPT ![i] = b.root]
        ELSE b.parent

union(p, i, j) ==
    LET a == find(p, i)
        b == find(a.parent, j)
    IN  IF a.root # b.root THEN [b.parent EXCEPT ![a.root] = b.root]
        ELSE b.parent

----------------------------------------------------------------------------
(* singleLinkageCluster *)

PhotoPoint(ph) == point(Whole(ph.lon), Whole(ph.lat))

(* dist < thresholdM *)
WithinThresholdStrict(ph, i, j, thresholdM) ==
    LET d == distance(PhotoPoint(ph[i]), PhotoPoint(ph[j]))
    IN  d.num < thresholdM * thresholdM * d.den

WithinThreshold(ph, i, j, thresholdM) ==
    DistLeq(distance(PhotoPoint(ph[i]), PhotoPoint(ph[j])), 100 * thresholdM)

(* clusters.set(root, []) on every index *)
MapPushReset(cl, root, i) ==
    IF \E k \in 1..Len(cl) : cl[k].root = root
    THEN [k \in 1..Len(cl) |->
            IF cl[k].root = root THEN [cl[k] EXCEPT !.members = <<i>>] ELSE cl[k]]
    ELSE Append(cl, [root |-> root, members |-> <<i>>])

HasRoot(cl, root) == \E k \in 1..Len(cl) : cl[k].root = root

(* unshift in place of push *)
MapPushFront(cl, root, i) ==
    LET cl2 == IF HasRoot(cl, root) THEN cl
               ELSE Append(cl, [root |-> root, members |-> <<>>])
    IN  [k \in 1..Len(cl2) |->
            IF cl2[k].root = root
            THEN [cl2[k] EXCEPT !.members = <<i>> \o @]
            ELSE cl2[k]]

MapPush(cl, root, i) ==
    LET cl2 == IF HasRoot(cl, root) THEN cl
               ELSE Append(cl, [root |-> root, members |-> <<>>])
    IN  [k \in 1..Len(cl2) |->
            IF cl2[k].root = root
            THEN [cl2[k] EXCEPT !.members = Append(@, i)]
            ELSE cl2[k]]

MapValues(cl) == [k \in 1..Len(cl) |-> cl[k].members]

(* lines 115-120: one pair *)
UnionPair(p, ph, i, j, thresholdM) ==
    IF WithinThreshold(ph, i, j, thresholdM) THEN union(p, i, j) ELSE p

(* lines 126-128: one index; the find compresses the path *)
GroupIndex(p, cl, i) ==
    LET r == find(p, i)
    IN  [parent |-> r.parent, clusters |-> MapPush(cl, r.root, i)]

(* lines 113-122, from pair (i, j) on *)
RECURSIVE UnionLoop(_, _, _, _, _)
UnionLoop(p, ph, i, j, thresholdM) ==
    IF i > Len(ph) THEN p
    ELSE IF j > Len(ph) THEN UnionLoop(p, ph, i + 1, i + 2, thresholdM)
    ELSE UnionLoop(UnionPair(p, ph, i, j, thresholdM), ph, i, j + 1, thresholdM)

(* lines 124-129, from index i on *)
RECURSIVE GroupLoop(_, _, _, _)
GroupLoop(p, cl, i, n) ==
    IF i > n THEN [parent |-> p, clusters |-> cl]
    ELSE LET g == GroupIndex(p, cl, i)
         IN  GroupLoop(g.parent, g.clusters, i + 1, n)

(* lines 110-129: the parent array and the Map once the loops are over *)
Grouped(ph, thresholdM) ==
    LET n == Len(ph)
        p == UnionLoop(NewParent(n), ph, 1, 2, thresholdM)
    IN  GroupLoop(p, <<>>, 1, n)

(* line 131 *)
singleLinkageCluster(ph, thresholdM) == MapValues(Grouped(ph, thresholdM).clusters)

----------------------------------------------------------------------------
(* main of cluster.ts: the per-cluster record *)

RECURSIVE SumLat(_)
SumLat(ps) == IF ps = <<>> THEN 0 ELSE Head(ps).lat + SumLat(Tail(ps))

RECURSIVE SumLon(_)
SumLon(ps) == IF ps = <<>> THEN 0 ELSE Head(ps).lon + SumLon(Tail(ps))

(* centerLon reduced over p.lat *)
CenterLatTwice(clusterPhotos) ==
    LET n == Len(clusterPhotos)
    IN  [lat |-> Rat(SumLat(clusterPhotos), n), lon |-> Rat(SumLat(clusterPhotos), n)]

(* lines 145-146: sum / length *)
Center(clusterPhotos) ==
    LET n == Len(clusterPhotos)
    IN  [lat |-> Rat(SumLat(clusterPhotos), n), lon |-> Rat(SumLon(clusterPhotos), n)]

(* radiusM = d in place of Math.max(radiusM, d) *)
RadiusLast(center, clusterPhotos) ==
    IF clusterPhotos = <<>> THEN Zero
    ELSE distance(center, PhotoPoint(clusterPhotos[Len(clusterPhotos)]))

RECURSIVE RadiusM(_, _)
RadiusM(center, clusterPhotos) ==
    IF clusterPhotos = <<>> THEN Zero
    ELSE LET rest == RadiusM(center, Tail(clusterPhotos))
             d == distance(center, PhotoPoint(Head(clusterPhotos)))
         IN  DistMax(rest, d)

(* the id taken from the position of the first member, not from the center *)
ClusterRecordIdOfFirst(ph, indices) ==
    LET clusterPhotos == [k \in 1..Len(indices) |-> ph[indices[k]]]
        mean == Center(clusterPhotos)
        center == point(mean.lon, mean.lat)
        enriched == [k \in 1..Len(clusterPhotos) |->
                        [filename |-> clusterPhotos[k].filename,
                         lat |-> clusterPhotos[k].lat,
                         lon |-> clusterPhotos[k].lon,
                         distance_from_center_m |->
                             Round2(distance(center, PhotoPoint(clusterPhotos[k])))]]
    IN  [cluster_id |-> <<"cluster", GeohashCell(Whole(clusterPhotos[1].lat),
                                                 Whole(clusterPhotos[1].lon))>>,
         center |-> mean,
         radius_m |-> Round2(RadiusM(center, clusterPhotos)),
         photos |-> enriched]

(* radius_m as Math.round(radiusM): whole metres *)
ClusterRecordRoundMetres(ph, indices) ==
    LET clusterPhotos == [k \in 1..Len(indices) |-> ph[indices[k]]]
        mean == Center(clusterPhotos)
        center == point(mean.lon, mean.lat)
        enriched == [k \in 1..Len(clusterPhotos) |->
                        [filename |-> clusterPhotos[k].filename,
                         lat |-> clusterPhotos[k].lat,
                         lon |-> clusterPhotos[k].lon,
                         distance_from_center_m |->
                             Round2(distance(center, PhotoPoint(clusterPhotos[k])))]]
    IN  [cluster_id |-> <<"cluster", GeohashCell(mean.lat, mean.lon)>>,
         center |-> mean,
         radius_m |-> 100 * ((Round2(RadiusM(center, clusterPhotos)) + 50) \div 100),
         photos |-> enriched]

ClusterRecord(ph, indices) ==
    LET clusterPhotos == [k \in 1..Len(indices) |-> ph[indices[k]]]
        mean == Center(clusterPhotos)
        center == point(mean.lon, mean.lat)
        enriched == [k \in 1..Len(clusterPhotos) |->
                        [filename |-> clusterPhotos[k].filename,
                         lat |-> clusterPhotos[k].lat,
                         lon |-> clusterPhotos[k].lon,
                         distance_from_center_m |->
                             Round2(distance(center, PhotoPoint(clusterPhotos[k])))]]
    IN  [cluster_id |-> <<"cluster", GeohashCell(mean.lat, mean.lon)>>,
         center |-> mean,
         radius_m |-> Round2(RadiusM(center, clusterPhotos)),
         photos |-> enriched]

ClusterResult(ph, groups) == [k \in 1..Len(groups) |-> ClusterRecord(ph, groups[k])]

----------------------------------------------------------------------------
(* enrich.ts before it is started *)

MatcherIdle ==
    /\ mpc = "idle"
    /\ merr = NoError
    /\ clustersData = Missing
    /\ trails = <<>>
    /\ mk = 1
    /\ intersecting = <<>>
    /\ features = <<>>
    /\ csvRows = <<>>
    /\ warnings = <<>>
    /\ readyAtStart = FALSE

(* data/intersections.geojson and data/intersections.csv not written yet *)
NoOutput ==
    /\ geojsonFile = Missing
    /\ csvFile = Missing

----------------------------------------------------------------------------
(* The run of cluster.ts, step by step: a step ends where the code awaits *)

(* the length check of line 136 left out *)
AfterLoadNoCheck(n) ==
    IF n = 0 THEN "write" ELSE IF n = 1 THEN "group" ELSE "union"

(* lines 136-139: no photo is fatal; lines 113-114: where the loops start *)
AfterLoad(n) ==
    IF n = 0 THEN "fatal" ELSE IF n = 1 THEN "group" ELSE "union"

(* main, lines 134-135, and line 67: the process started and the directory
   read; with no file in it, lines 136-139 at once *)
ReadDir ==
    /\ cpc \in {"idle", "done", "fatal"}
    /\ runs < MaxRuns
    /\ runs' = runs + 1
    /\ prevClusters' = clustersFile
    /\ photos' = <<>>
    /\ skipped' = <<>>
    /\ clusters' = <<>>
    /\ ci' = 1
    /\ cj' = 2
    /\ IF files = <<>>
       THEN cpc' = AfterLoad(0) /\ parent' = NewParent(0)
       ELSE cpc' = "load" /\ parent' = <<>>
    /\ UNCHANGED <<files, pending, clustersFile>>
    /\ UNCHANGED mvars

(* one iteration of the loop of lines 70-90, from the readFile of line 75;
   after the last one, lines 136-139 and lines 110-111 of
   singleLinkageCluster *)
LoadFile ==
    /\ cpc = "load"
    /\ photos' = photos \o loadPhotoMeta(<<files[ci]>>)
    /\ skipped' = skipped \o SkippedNames(<<files[ci]>>)
    /\ IF ci < Len(files)
       THEN /\ ci' = ci + 1
            /\ UNCHANGED <<cpc, parent>>
       ELSE /\ ci' = 1
            /\ cpc' = AfterLoad(Len(photos'))
            /\ parent' = NewParent(Len(photos'))
    /\ UNCHANGED <<files, cj, clusters, pending, clustersFile, runs, prevClusters>>
    /\ UNCHANGED mvars

(* the inner loop started at j = i *)
NextPairFromSelf(i, j, n) == IF j < n THEN <<i, j + 1>> ELSE <<i + 1, i + 1>>

(* lines 113-114: j++ in the inner loop, else i++ and j = i + 1 *)
NextPair(i, j, n) == IF j < n THEN <<i, j + 1>> ELSE <<i + 1, i + 2>>

(* one iteration of the inner loop, lines 114-121 *)
UnionStep ==
    /\ cpc = "union"
    /\ parent' = UnionPair(parent, photos, ci, cj, cluster_threshold_m)
    /\ LET nx == NextPair(ci, cj, Len(photos))
       IN  IF nx[2] <= Len(photos)
           THEN /\ ci' = nx[1]
                /\ cj' = nx[2]
                /\ UNCHANGED cpc
           ELSE /\ ci' = 1
                /\ cj' = 2
                /\ cpc' = "group"
    /\ UNCHANGED <<files, photos, skipped, clusters, pending, clustersFile, runs, prevClusters>>
    /\ UNCHANGED mvars

(* one iteration of the loop of lines 125-129 *)
GroupStep ==
    /\ cpc = "group"
    /\ LET g == GroupIndex(parent, clusters, ci)
       IN  /\ parent' = g.parent
           /\ clusters' = g.clusters
    /\ IF ci < Len(photos)
       THEN ci' = ci + 1 /\ UNCHANGED cpc
       ELSE ci' = 1 /\ cpc' = "write"
    /\ UNCHANGED <<files, photos, skipped, cj, pending, clustersFile, runs, prevClusters>>
    /\ UNCHANGED mvars

(* main, lines 143-173: the result built, the directory made and
   data/clusters.json opened, which leaves it empty *)
OpenClusters ==
    /\ cpc = "write"
    /\ clustersFile' = Malformed
    /\ cpc' = "writing"
    /\ UNCHANGED <<files, photos, skipped, parent, ci, cj, clusters, pending, runs, prevClusters>>
    /\ UNCHANGED mvars

(* main, lines 173-174: the text written and the file closed *)
WriteClusters ==
    /\ cpc = "writing"
    /\ clustersFile' = [clusters |-> ClusterResult(photos, MapValues(clusters))]
    /\ cpc' = "done"
    /\ UNCHANGED <<files, photos, skipped, parent, ci, cj, clusters, pending, runs, prevClusters>>
    /\ UNCHANGED mvars

ClusterIdle ==
    /\ cpc = "idle"
    /\ photos = <<>>
    /\ skipped = <<>>
    /\ parent = <<>>
    /\ ci = 1
    /\ cj = 2
    /\ clusters = <<>>
    /\ pending = {}
    /\ clustersFile = Missing
    /\ runs = 0
    /\ prevClusters = Missing

(* cluster.ts has run once to its end, lines 134-175, on a directory where
   data/clusters.json was prev *)
ClusterRan(prev) ==
    /\ runs = 1
    /\ prevClusters = prev
    /\ photos = loadPhotoMeta(files)
    /\ skipped = SkippedNames(files)
    /\ ci = 1
    /\ cj = 2
    /\ pending = {}
    /\ IF AfterLoad(Len(photos)) = "fatal"
       THEN /\ cpc = "fatal"
            /\ parent = NewParent(0)
            /\ clusters = <<>>
            /\ clustersFile = prev
       ELSE /\ cpc = "done"
            /\ parent = Grouped(photos, cluster_threshold_m).parent
            /\ clusters = Grouped(photos, cluster_threshold_m).clusters
            /\ clustersFile =
                  [clusters |-> ClusterResult(photos,
                                   singleLinkageCluster(photos, cluster_threshold_m))]

InitCluster ==
    /\ files \in Directories
    /\ ClusterIdle
    /\ trailsFile = Missing
    /\ trailSource = <<>>
    /\ MatcherIdle
    /\ NoOutput

NextCluster ==
    ReadDir \/ LoadFile \/ UnionStep \/ GroupStep \/ OpenClusters \/ WriteClusters

SpecCluster == InitCluster /\ [][NextCluster]_vars

(* The same run on directories of photos along a line, each of its steps
   taken once it can be: the reads and the write the run awaits complete,
   and the loops in between are one synchronous computation. *)

TermGps == {NoGps, <<0, 0>>, <<15, 0>>, <<45, 0>>}

TermDirectories == {MkFiles(g) : g \in UNION {[1..n -> TermGps] : n \in 0..MaxFiles}}

InitTerm ==
    /\ files \in TermDirectories
    /\ ClusterIdle
    /\ trailsFile = Missing
    /\ trailSource = <<>>
    /\ MatcherIdle
    /\ NoOutput

(* the step of WriteClusters, told by the position it leaves and the one it
   reaches: no other step of the run goes from "writing" to "done" *)
WriteDone == cpc = "writing" /\ cpc' = "done"

SpecClusterFair ==
    /\ InitTerm
    /\ [][NextCluster]_vars
    /\ WF_vars(LoadFile)
    /\ WF_vars(UnionStep)
    /\ WF_vars(GroupStep)
    /\ WF_vars(OpenClusters)
    /\ WF_cpc(WriteDone)

----------------------------------------------------------------------------
(* The pairs unioned in an arbitrary order: the parallel schedule that the *)
(* design allows for the loop of lines 113-122.                            *)

AllPairs(n) == {pr \in (1..n) \X (1..n) : pr[1] < pr[2]}

(* LoadFile, the pairs of lines 113-114 left to be taken in any order *)
LoadFileAnyOrder ==
    /\ cpc = "load"
    /\ photos' = photos \o loadPhotoMeta(<<files[ci]>>)
    /\ skipped' = skipped \o SkippedNames(<<files[ci]>>)
    /\ IF ci < Len(files)
       THEN /\ ci' = ci + 1
            /\ UNCHANGED <<cpc, parent, pending>>
       ELSE /\ ci' = 1
            /\ cpc' = IF AfterLoad(Len(photos')) = "union" THEN "anyorder"
                      ELSE AfterLoad(Len(photos'))
            /\ parent' = NewParent(Len(photos'))
            /\ pending' = AllPairs(Len(photos'))
    /\ UNCHANGED <<files, cj, clusters, clustersFile, runs, prevClusters>>
    /\ UNCHANGED mvars

UnionAny ==
    /\ cpc = "anyorder"
    /\ \E pr \in pending :
          /\ parent' = UnionPair(parent, photos, pr[1], pr[2], cluster_threshold_m)
          /\ pending' = pending \ {pr}
          /\ cpc' = IF pending' = {} THEN "group" ELSE "anyorder"
    /\ UNCHANGED <<files, photos, skipped, ci, cj, clusters, clustersFile, runs,
                   prevClusters>>
    /\ UNCHANGED mvars

NextOrder ==
    ReadDir \/ LoadFileAnyOrder \/ UnionAny \/ GroupStep \/ OpenClusters \/ WriteClusters

InitOrder ==
    /\ files \in GpsDirectories
    /\ ClusterIdle
    /\ trailsFile = Missing
    /\ trailSource = <<>>
    /\ MatcherIdle
    /\ NoOutput

SpecOrder == InitOrder /\ [][NextOrder]_vars

----------------------------------------------------------------------------
(* @turf/point-to-line-distance: the least distance from a point to the    *)
(* segments of a line; a coordinate is <<lon, lat>>.                        *)

CoordPoint(c) == point(Whole(c[1]), Whole(c[2]))

(* the point projected on the segment a-b and clamped to its end points *)
distanceToSegment(p, a, b) ==
    LET vlat == p.lat - p.den * a[2]
        vlon == p.lon - p.den * a[1]
        dlat == b[2] - a[2]
        dlon == b[1] - a[1]
        dot == vlat * dlat + vlon * dlon
        len2 == dlat * dlat + dlon * dlon
        cross == vlon * dlat - vlat * dlon
    IN  IF dot <= 0 THEN distance(p, CoordPoint(a))
        ELSE IF dot >= p.den * len2 THEN distance(p, CoordPoint(b))
        ELSE [num |-> cross * cross, den |-> len2 * p.den * p.den]

RECURSIVE pointToLineDistance(_, _)
pointToLineDistance(p, coords) ==
    LET d == distanceToSegment(p, coords[1], coords[2])
    IN  IF Len(coords) = 2 THEN d
        ELSE LET rest == pointToLineDistance(p, Tail(coords))
             IN  IF DistLeqDist(d, rest) THEN d ELSE rest

----------------------------------------------------------------------------
(* Trail inputs *)

LineFeature(coords, props) ==
    [type |-> "Feature",
     geometry |-> [type |-> "LineString", coordinates |-> coords],
     properties |-> props]

TrailCatalog ==
    { LineFeature(<<<<30, 0>>, <<30, 30>>>>,
                  [name |-> "Sunflower", snowshoe |-> TRUE, nordic_ski |-> FALSE,
                   winter_fat_bike |-> FALSE, summer_mtb |-> FALSE]),
      LineFeature(<<<<60, 0>>, <<0, 60>>, <<-30, 60>>>>,
                  [nordic_ski |-> TRUE, summer_mtb |-> TRUE]),
      LineFeature(<<<<-60, -15>>, <<-30, 15>>>>,
                  [name |-> "Sunflower", snowshoe |-> FALSE, nordic_ski |-> FALSE,
                   winter_fat_bike |-> TRUE, summer_mtb |-> FALSE]),
      LineFeature(<<<<0, 0>>>>,
                  [name |-> "Stub", snowshoe |-> TRUE, nordic_ski |-> TRUE,
                   winter_fat_bike |-> TRUE, summer_mtb |-> TRUE]),
      [type |-> "Feature",
       geometry |-> [type |-> "LineString"],
       properties |-> [name |-> "Ghost", snowshoe |-> TRUE, nordic_ski |-> FALSE,
                       winter_fat_bike |-> FALSE, summer_mtb |-> FALSE]],
      [type |-> "Feature",
       geometry |-> [type |-> "Point", coordinates |-> <<15, 15>>],
       properties |-> [name |-> "Trailhead"]] }

TrailFiles ==
    {Missing} \cup
    {[features |-> fs] : fs \in UNION {[1..n -> TrailCatalog] : n \in 0..MaxTrails}}

----------------------------------------------------------------------------
(* enrich.ts *)

(* lines 36-38: f.type === "Feature" && f.geometry?.type === "LineString" *)
IsTrail(f) ==
    /\ "type" \in DOMAIN f
    /\ f.type = "Feature"
    /\ "geometry" \in DOMAIN f
    /\ "type" \in DOMAIN f.geometry
    /\ f.geometry.type = "LineString"

(* line 40: t.geometry.coordinates?.length ?? 0, which is 0 for a geometry
   that has no coordinates member or a null one *)
CoordsLength(t) ==
    IF "coordinates" \in DOMAIN t.geometry THEN Len(t.geometry.coordinates) ELSE 0

(* line 40 *)
HasCoords(t) == CoordsLength(t) >= 2

(* lines 56-57: coords is undefined for a geometry that has no coordinates
   member, and coords.length throws a TypeError *)
CoordsLengthThrows(trail) == "coordinates" \notin DOMAIN trail.geometry

(* lines 55-57: the loop over the trails reaches a trail on which
   coords.length throws *)
TrailLoopThrows(trs) == \E k \in 1..Len(trs) : CoordsLengthThrows(trs[k])

(* the radius of the cluster left out *)
BufferNoRadius(cluster) == 100 * intersection_buffer_m

(* line 51, in centimetres *)
BufferM(cluster) == cluster.radius_m + 100 * intersection_buffer_m

(* the comparison of line 60 turned round *)
BeyondBuffer(dist, bufferM) == FracLeq(bufferM * bufferM, 10000, dist.num, dist.den)

(* line 60: dist <= bufferM, bufferM in centimetres *)
WithinBuffer(dist, bufferM) == DistLeq(dist, bufferM)

(* lines 52-60 for a given bufferM and a trail that has a coordinates
   member; for a trail without one line 57 throws, which is
   CoordsLengthThrows *)
IntersectsWithin(cluster, trail, bufferM) ==
    LET coords == trail.geometry.coordinates
        centerPt == point(cluster.center.lon, cluster.center.lat)
    IN  IF Len(coords) < 2 THEN FALSE
        ELSE WithinBuffer(pointToLineDistance(centerPt, coords), bufferM)

(* lines 51-60 *)
TrailIntersects(cluster, trail) == IntersectsWithin(cluster, trail, BufferM(cluster))

(* lines 54-61: the matched trails, as indices in trails *)
Intersecting(cluster, trs) ==
    SelectSeq([k \in 1..Len(trs) |-> k], LAMBDA k : TrailIntersects(cluster, trs[k]))

(* the name left empty when the trail has none *)
TrailNameOrEmpty(t) ==
    IF "name" \in DOMAIN t.properties THEN t.properties.name ELSE ""

(* line 63: t.properties?.name || "Unknown" *)
TrailName(t) ==
    IF "name" \in DOMAIN t.properties /\ t.properties.name # ""
    THEN t.properties.name ELSE "Unknown"

(* line 63: intersecting.map(...).filter(Boolean) *)
TrailNames(trs, matched) ==
    SelectSeq([k \in 1..Len(matched) |-> TrailName(trs[matched[k]])],
              LAMBDA n : n # "")

(* the number of different names *)
TrailCountDistinct(trs, matched) ==
    Cardinality({TrailName(trs[matched[k]]) : k \in 1..Len(matched)})

(* line 80: intersecting.length *)
TrailCount(trs, matched) == Len(matched)

(* every matched trail has the flag *)
EveryFlag(trs, matched, flag) ==
    \A k \in 1..Len(matched) :
        /\ flag \in DOMAIN trs[matched[k]].properties
        /\ trs[matched[k]].properties[flag] = TRUE

(* lines 64-67 *)
SomeFlag(trs, matched, flag) ==
    \E k \in 1..Len(matched) :
        /\ flag \in DOMAIN trs[matched[k]].properties
        /\ trs[matched[k]].properties[flag] = TRUE

(* lat and lon of the properties exchanged *)
FeatureLatLonSwapped(cluster, trs, matched) ==
    [geometry |-> [type |-> "Point",
                   coordinates |-> <<cluster.center.lon, cluster.center.lat>>],
     properties |->
        [cluster_id |-> cluster.cluster_id,
         trail_count |-> TrailCount(trs, matched),
         trail_names |-> TrailNames(trs, matched),
         snowshoe |-> SomeFlag(trs, matched, "snowshoe"),
         nordic_ski |-> SomeFlag(trs, matched, "nordic_ski"),
         winter_fat_bike |-> SomeFlag(trs, matched, "winter_fat_bike"),
         summer_mtb |-> SomeFlag(trs, matched, "summer_mtb"),
         lat |-> cluster.center.lon,
         lon |-> cluster.center.lat,
         radius_m |-> cluster.radius_m,
         photos |-> [k \in 1..Len(cluster.photos) |-> cluster.photos[k].filename]]]

(* lines 75-91 *)
Feature(cluster, trs, matched) ==
    [geometry |-> [type |-> "Point",
                   coordinates |-> <<cluster.center.lon, cluster.center.lat>>],
     properties |->
        [cluster_id |-> cluster.cluster_id,
         trail_count |-> TrailCount(trs, matched),
         trail_names |-> TrailNames(trs, matched),
         snowshoe |-> SomeFlag(trs, matched, "snowshoe"),
         nordic_ski |-> SomeFlag(trs, matched, "nordic_ski"),
         winter_fat_bike |-> SomeFlag(trs, matched, "winter_fat_bike"),
         summer_mtb |-> SomeFlag(trs, matched, "summer_mtb"),
         lat |-> cluster.center.lat,
         lon |-> cluster.center.lon,
         radius_m |-> cluster.radius_m,
         photos |-> [k \in 1..Len(cluster.photos) |-> cluster.photos[k].filename]]]

(* lines 93-105: the row holds the fields of the feature in column order *)
CsvRow(f) ==
    <<f.properties.cluster_id, f.properties.trail_count, f.properties.trail_names,
      f.properties.snowshoe, f.properties.nordic_ski, f.properties.winter_fat_bike,
      f.properties.summer_mtb, f.properties.lat, f.properties.lon,
      f.properties.radius_m, f.properties.photos>>

(* line 48 *)
CsvHeader ==
    <<"cluster_id", "trail_count", "trail_names", "snowshoe", "nordic_ski",
      "winter_fat_bike", "summer_mtb", "lat", "lon", "radius_m", "photos">>

(* the feature dropped when nothing intersects *)
PushFeatureSkipEmpty(fs, f) == IF f.properties.trail_count = 0 THEN fs ELSE Append(fs, f)

(* the records kept by cluster_id: a record replaces the one of the same id *)
PushFeatureById(fs, f) ==
    IF \E k \in 1..Len(fs) : fs[k].properties.cluster_id = f.properties.cluster_id
    THEN [k \in 1..Len(fs) |->
            IF fs[k].properties.cluster_id = f.properties.cluster_id THEN f ELSE fs[k]]
    ELSE Append(fs, f)

(* line 75 *)
PushFeature(fs, f) == Append(fs, f)

(* a warning for every cluster *)
WarnAlways(ws, cluster, matched) == Append(ws, cluster.cluster_id)

(* lines 69-71 *)
WarnNoTrails(ws, cluster, matched) ==
    IF Len(matched) = 0 THEN Append(ws, cluster.cluster_id) ELSE ws

(* ascending instead of descending *)
RECURSIVE InsertAsc(_, _)
InsertAsc(sorted, x) ==
    IF sorted = <<>> THEN <<x>>
    ELSE IF Head(sorted).f.properties.trail_count <= x.f.properties.trail_count
         THEN <<Head(sorted)>> \o InsertAsc(Tail(sorted), x)
         ELSE <<x>> \o sorted

(* descending, a record put before the records it ties with *)
RECURSIVE InsertDescBeforeTies(_, _)
InsertDescBeforeTies(sorted, x) ==
    IF sorted = <<>> THEN <<x>>
    ELSE IF Head(sorted).f.properties.trail_count > x.f.properties.trail_count
         THEN <<Head(sorted)>> \o InsertDescBeforeTies(Tail(sorted), x)
         ELSE <<x>> \o sorted

(* Array.prototype.sort with the comparator of line 110: stable, descending *)
RECURSIVE InsertDesc(_, _)
InsertDesc(sorted, x) ==
    IF sorted = <<>> THEN <<x>>
    ELSE IF Head(sorted).f.properties.trail_count >= x.f.properties.trail_count
         THEN <<Head(sorted)>> \o InsertDesc(Tail(sorted), x)
         ELSE <<x>> \o sorted

RECURSIVE SortDesc(_)
SortDesc(items) ==
    IF items = <<>> THEN <<>>
    ELSE InsertDesc(SortDesc(SubSeq(items, 1, Len(items) - 1)), items[Len(items)])

(* the features sorted and the csv rows left in the order of the loop *)
SortedFeaturesOnly(fs, rows) ==
    LET byCount == SortDesc([i \in 1..Len(fs) |-> [f |-> fs[i], row |-> rows[i + 1]]])
    IN  [i \in 1..Len(byCount) |-> [f |-> byCount[i].f, row |-> rows[i + 1]]]

(* lines 108-113 *)
Sorted(fs, rows) == SortDesc([i \in 1..Len(fs) |-> [f |-> fs[i], row |-> rows[i + 1]]])

(* readFile and JSON.parse swallowing the failure and going on with nothing *)
ReadJsonOrEmpty(file) ==
    [ok |-> TRUE,
     data |-> IF file \in {Missing, Malformed}
              THEN [clusters |-> <<>>, features |-> <<>>] ELSE file]

(* a file cut short parsed as if it were whole *)
ReadJsonLenient(file) ==
    IF file = Missing THEN [ok |-> FALSE, data |-> Missing]
    ELSE [ok |-> TRUE, data |-> file]

(* JSON.parse(await readFile(path, "utf-8")) of lines 23 and 30: either throws *)
ReadJson(file) ==
    IF file \in {Missing, Malformed} THEN [ok |-> FALSE, data |-> Missing]
    ELSE [ok |-> TRUE, data |-> file]

(* the console.error lines 25 and 32 *)
CouldNotRead(path, step) == [error |-> "Could not read", path |-> path, run |-> step]

(* the console.error lines 42-43 *)
NoTrailGeometry ==
    [error |-> "No trail geometry found. All trails have empty coordinates.",
     path |-> "", run |-> "har_to_trails"]

(* line 50 iterating a clusters member that is absent: the TypeError reaches
   the catch of lines 124-127 *)
NotIterable == [error |-> "TypeError", path |-> "", run |-> ""]

(* line 57 reading the length of coordinates that are absent: the TypeError
   reaches the catch of lines 124-127 *)
UndefinedLength == [error |-> "TypeError: coords.length", path |-> "", run |-> ""]

(* line 36: trailsData.features || [] *)
FeaturesOf(data) == IF "features" \in DOMAIN data THEN data.features ELSE <<>>

(* the enrich.ts process started, lines 19-20: nothing read yet *)
MatcherBegin ==
    /\ mpc \in {"idle", "fatal", "done"}
    /\ mpc' = "begun"
    /\ merr' = NoError
    /\ clustersData' = Missing
    /\ trails' = <<>>
    /\ mk' = 1
    /\ intersecting' = <<>>
    /\ features' = <<>>
    /\ csvRows' = <<>>
    /\ warnings' = <<>>
    /\ readyAtStart' = (ReadJson(clustersFile).ok /\ ReadJson(trailsFile).ok)
    /\ UNCHANGED <<geojsonFile, csvFile>>
    /\ UNCHANGED <<trailsFile, trailSource>>
    /\ UNCHANGED cvars

(* lines 21-27: the read of data/clusters.json *)
ReadClusters ==
    /\ mpc = "begun"
    /\ LET c == ReadJson(clustersFile)
       IN  IF ~ c.ok
           THEN /\ mpc' = "fatal"
                /\ merr' = CouldNotRead(clusters_path, "cluster.ts")
                /\ UNCHANGED clustersData
           ELSE /\ mpc' = "readTrails"
                /\ clustersData' = c.data
                /\ UNCHANGED merr
    /\ UNCHANGED <<trails, mk, intersecting, features, csvRows, warnings, geojsonFile,
                   csvFile, readyAtStart>>
    /\ UNCHANGED <<trailsFile, trailSource>>
    /\ UNCHANGED cvars

(* lines 28-48: the read of data/trails.json, and the start of the loop of
   line 50 *)
ReadTrails ==
    /\ mpc = "readTrails"
    /\ LET t == ReadJson(trailsFile)
       IN  IF ~ t.ok
           THEN /\ mpc' = "fatal"
                /\ merr' = CouldNotRead(trails_path, "fetch_trails.ts")
                /\ UNCHANGED <<trails, csvRows>>
           ELSE /\ trails' = SelectSeq(FeaturesOf(t.data), IsTrail)
                /\ IF SelectSeq(trails', HasCoords) = <<>>
                   THEN /\ mpc' = "fatal"
                        /\ merr' = NoTrailGeometry
                        /\ UNCHANGED csvRows
                   ELSE IF "clusters" \notin DOMAIN clustersData
                   THEN /\ mpc' = "fatal"
                        /\ merr' = NotIterable
                        /\ csvRows' = <<CsvHeader>>
                   ELSE /\ mpc' = IF Len(clustersData.clusters) = 0 THEN "sort" ELSE "loop"
                        /\ merr' = NoError
                        /\ csvRows' = <<CsvHeader>>
    /\ UNCHANGED <<clustersData, mk, intersecting, features, warnings, geojsonFile,
                   csvFile, readyAtStart>>
    /\ UNCHANGED <<trailsFile, trailSource>>
    /\ UNCHANGED cvars

(* one iteration of the loop of lines 50-106; the iteration ends in the
   catch of lines 124-127 when line 57 throws *)
ProcessCluster ==
    /\ mpc = "loop"
    /\ IF TrailLoopThrows(trails)
       THEN /\ mpc' = "fatal"
            /\ merr' = UndefinedLength
            /\ UNCHANGED <<mk, intersecting, features, csvRows, warnings>>
       ELSE /\ LET cluster == clustersData.clusters[mk]
                   matched == Intersecting(cluster, trails)
                   f == Feature(cluster, trails, matched)
               IN  /\ intersecting' = matched
                   /\ warnings' = WarnNoTrails(warnings, cluster, matched)
                   /\ features' = PushFeature(features, f)
                   /\ csvRows' = Append(csvRows, CsvRow(f))
            /\ IF mk < Len(clustersData.clusters)
               THEN mk' = mk + 1 /\ UNCHANGED mpc
               ELSE mk' = mk + 1 /\ mpc' = "sort"
            /\ UNCHANGED merr
    /\ UNCHANGED <<clustersData, trails, geojsonFile, csvFile, readyAtStart>>
    /\ UNCHANGED <<trailsFile, trailSource>>
    /\ UNCHANGED cvars

(* lines 108-117: the records sorted, the directory made and
   data/intersections.geojson opened, which leaves it empty *)
OpenGeojson ==
    /\ mpc = "sort"
    /\ geojsonFile' = Malformed
    /\ mpc' = "writeGeojson"
    /\ UNCHANGED csvFile
    /\ UNCHANGED <<merr, clustersData, trails, mk, intersecting, features, csvRows,
                   warnings, readyAtStart>>
    /\ UNCHANGED <<trailsFile, trailSource>>
    /\ UNCHANGED cvars

(* line 117: the text written and the file closed *)
WriteGeojson ==
    /\ mpc = "writeGeojson"
    /\ LET sorted == Sorted(features, csvRows)
       IN  geojsonFile' = [features |-> [i \in 1..Len(sorted) |-> sorted[i].f]]
    /\ mpc' = "openCsv"
    /\ UNCHANGED csvFile
    /\ UNCHANGED <<merr, clustersData, trails, mk, intersecting, features, csvRows,
                   warnings, readyAtStart>>
    /\ UNCHANGED <<trailsFile, trailSource>>
    /\ UNCHANGED cvars

(* line 118: data/intersections.csv opened, which leaves it empty *)
OpenCsv ==
    /\ mpc = "openCsv"
    /\ csvFile' = Malformed
    /\ mpc' = "writeCsv"
    /\ UNCHANGED geojsonFile
    /\ UNCHANGED <<merr, clustersData, trails, mk, intersecting, features, csvRows,
                   warnings, readyAtStart>>
    /\ UNCHANGED <<trailsFile, trailSource>>
    /\ UNCHANGED cvars

(* lines 118-121: the text written and the file closed *)
WriteCsv ==
    /\ mpc = "writeCsv"
    /\ LET sorted == Sorted(features, csvRows)
       IN  csvFile' = [rows |-> <<csvRows[1]>> \o [i \in 1..Len(sorted) |-> sorted[i].row]]
    /\ mpc' = "done"
    /\ UNCHANGED geojsonFile
    /\ UNCHANGED <<merr, clustersData, trails, mk, intersecting, features, csvRows,
                   warnings, readyAtStart>>
    /\ UNCHANGED <<trailsFile, trailSource>>
    /\ UNCHANGED cvars

(* what an earlier run of enrich.ts left behind: nothing, or the two files
   written for one photo 15 m from the first trail of the catalogue *)
PreviousOutputs ==
    LET ph == loadPhotoMeta(MkFiles(<<<<45, 0>>>>))
        cl == ClusterResult(ph, singleLinkageCluster(ph, cluster_threshold_m))[1]
        trs == <<LineFeature(<<<<30, 0>>, <<30, 30>>>>,
                             [name |-> "Sunflower", snowshoe |-> TRUE,
                              nordic_ski |-> FALSE, winter_fat_bike |-> FALSE,
                              summer_mtb |-> FALSE])>>
        f == Feature(cl, trs, Intersecting(cl, trs))
    IN  {<<Missing, Missing>>,
         <<[features |-> <<f>>], [rows |-> <<CsvHeader, CsvRow(f)>>]>>}

OutputLeft ==
    \E o \in PreviousOutputs :
        /\ geojsonFile = o[1]
        /\ csvFile = o[2]

(* enrich.ts on a directory where cluster.ts has not run or has run to its
   end, and where data/trails.json does not change *)
InitMatcher ==
    /\ files \in LineDirectories
    /\ ClusterIdle \/ ClusterRan(Missing)
    /\ trailsFile \in TrailFiles
    /\ trailSource = <<>>
    /\ MatcherIdle
    /\ OutputLeft

NextMatcher ==
    \/ MatcherBegin
    \/ ReadClusters
    \/ ReadTrails
    \/ ProcessCluster
    \/ OpenGeojson
    \/ WriteGeojson
    \/ OpenCsv
    \/ WriteCsv

SpecMatcher == InitMatcher /\ [][NextMatcher]_vars

----------------------------------------------------------------------------
(* enrich.ts started on whatever data/clusters.json and data/trails.json    *)
(* hold: files that are absent, are not JSON, lack the list, or hold an     *)
(* empty list, besides the files that cluster.ts writes.                    *)

ClusterFiles == {Missing, Malformed, [version |-> 1], [clusters |-> <<>>]}

PrereqTrailFiles == TrailFiles \cup {Malformed, [type |-> "FeatureCollection"]}

(* no photo, one photo, two photos 30 m apart, two photos 60 m apart, three
   photos 60 m apart *)
PrereqDirectories ==
    {MkFiles(<<>>), MkFiles(<<<<15, 0>>>>), MkFiles(<<<<0, 0>>, <<30, 0>>>>),
     MkFiles(<<<<0, 0>>, <<60, 0>>>>), MkFiles(<<<<120, 0>>, <<0, 0>>, <<60, 0>>>>)}

(* cluster.ts not run, data/clusters.json being one of ClusterFiles, or run
   to its end over it *)
InitPrereq ==
    /\ files \in PrereqDirectories
    /\ \E prev \in ClusterFiles :
          \/ /\ cpc = "idle"
             /\ photos = <<>>
             /\ skipped = <<>>
             /\ parent = <<>>
             /\ ci = 1
             /\ cj = 2
             /\ clusters = <<>>
             /\ pending = {}
             /\ clustersFile = prev
             /\ runs = 0
             /\ prevClusters = Missing
          \/ ClusterRan(prev)
    /\ trailsFile \in PrereqTrailFiles
    /\ trailSource = <<>>
    /\ MatcherIdle
    /\ OutputLeft

NextPrereq == NextMatcher

SpecPrereq == InitPrereq /\ [][NextPrereq]_vars

----------------------------------------------------------------------------
(* The runs with a write that fails. writeFile rejects either on opening the
   path (EACCES, EISDIR), the file left as it was, or on the write after the
   open (ENOSPC, EFBIG), the file left empty *)

(* config.ts, lines 9-10 *)
intersections_geojson_path == "data/intersections.geojson"
intersections_csv_path == "data/intersections.csv"

(* the console.error(err) of the catch, enrich.ts lines 124-127 *)
WriteFailed(path) == [error |-> "Error", path |-> path, run |-> ""]

(* name: f.properties?.name ?? "Unknown", line 109 *)
HarNames == {"Sunflower", "Unknown", ""}

(* the features har_to_trails.ts writes (lines 103-142): lines of 2 or more
   coordinates with a name and the four flags.  A flag is true when the
   trail is in a response of its activity type (lines 92-95, 119-122), so
   that any of the sixteen combinations is written, all four false
   included *)
HarTrails ==
    { LineFeature(<<<<30, 0>>, <<30, 30>>>>,
                  [name |-> n, snowshoe |-> a, nordic_ski |-> b,
                   winter_fat_bike |-> c, summer_mtb |-> d]) :
        n \in HarNames, a \in BOOLEAN, b \in BOOLEAN, c \in BOOLEAN, d \in BOOLEAN }

(* three of these features *)
HarSample ==
    { LineFeature(<<<<30, 0>>, <<30, 30>>>>,
                  [name |-> "Sunflower", snowshoe |-> TRUE, nordic_ski |-> FALSE,
                   winter_fat_bike |-> FALSE, summer_mtb |-> FALSE]),
      LineFeature(<<<<30, 0>>, <<30, 30>>>>,
                  [name |-> "Unknown", snowshoe |-> TRUE, nordic_ski |-> TRUE,
                   winter_fat_bike |-> FALSE, summer_mtb |-> TRUE]),
      LineFeature(<<<<30, 0>>, <<30, 30>>>>,
                  [name |-> "", snowshoe |-> FALSE, nordic_ski |-> FALSE,
                   winter_fat_bike |-> FALSE, summer_mtb |-> FALSE]) }

(* the features the second main of har_to_trails.ts writes (lines 250-268):
   lines of 2 or more coordinates with a name, winter and ski_trails, and
   none of the four flags *)
HarWinterTrails ==
    { LineFeature(<<<<60, 0>>, <<0, 60>>>>,
                  [name |-> n, winter |-> w, ski_trails |-> s]) :
        n \in HarNames, w \in BOOLEAN, s \in BOOLEAN }

HarWinterSample ==
    { LineFeature(<<<<60, 0>>, <<0, 60>>>>,
                  [name |-> "Sunflower", winter |-> TRUE, ski_trails |-> FALSE]),
      LineFeature(<<<<60, 0>>, <<0, 60>>>>,
                  [name |-> "Unknown", winter |-> FALSE, ski_trails |-> TRUE]) }

(* the feature lists of the model for a script that writes the features of
   the set ts: no feature, any one feature, and two features of sample *)
ListsOf(ts, sample) ==
    {<<>>} \cup {<<t>> : t \in ts} \cup {<<s, t>> : s \in sample, t \in sample}

(* the feature lists a run of the trail-acquisition stage writes.
   fetch_trails.ts writes none: page.evaluate of part_001 lines 97 and 281
   rejects on the script text of lines 58-60 and 243-245, and the catch
   exits before the writeFile of lines 199 and 345 *)
TrailSources ==
    ListsOf(HarTrails, HarSample) \cup ListsOf(HarWinterTrails, HarWinterSample)

(* cluster.ts lines 172-173 rejecting, on the open with data/clusters.json
   as it was or on the write with the file left empty: main() of line 177
   has no catch and the process ends on the rejection *)
WriteClustersFails ==
    /\ cpc \in {"write", "writing"}
    /\ cpc' = "fatal"
    /\ UNCHANGED <<files, photos, skipped, parent, ci, cj, clusters, pending, clustersFile,
                   runs, prevClusters>>
    /\ UNCHANGED mvars

(* enrich.ts lines 116-117 rejecting, on the open with
   data/intersections.geojson as it was or on the write with the file left
   empty: the catch of lines 124-127 exits *)
WriteGeojsonFails ==
    /\ mpc \in {"sort", "writeGeojson"}
    /\ mpc' = "fatal"
    /\ merr' = WriteFailed(intersections_geojson_path)
    /\ UNCHANGED <<geojsonFile, csvFile>>
    /\ UNCHANGED <<clustersData, trails, mk, intersecting, features, csvRows,
                   warnings, readyAtStart>>
    /\ UNCHANGED <<trailsFile, trailSource>>
    /\ UNCHANGED cvars

(* enrich.ts line 118 rejecting, line 117 done, on the open with
   data/intersections.csv as it was or on the write with the file left
   empty: the catch of lines 124-127 exits *)
WriteCsvFails ==
    /\ mpc \in {"openCsv", "writeCsv"}
    /\ mpc' = "fatal"
    /\ merr' = WriteFailed(intersections_csv_path)
    /\ UNCHANGED <<geojsonFile, csvFile>>
    /\ UNCHANGED <<clustersData, trails, mk, intersecting, features, csvRows,
                   warnings, readyAtStart>>
    /\ UNCHANGED <<trailsFile, trailSource>>
    /\ UNCHANGED cvars

(* cluster.ts and enrich.ts started in any order, data/trails.json in place,
   the outputs of an earlier run of enrich.ts there or not *)
InitFault ==
    /\ files \in PrereqDirectories
    /\ ClusterIdle
    /\ trailsFile \in {[type |-> "FeatureCollection", features |-> fs] :
                          fs \in [1..1 -> HarSample]}
    /\ trailSource = <<>>
    /\ MatcherIdle
    /\ OutputLeft

NextFault ==
    \/ NextCluster
    \/ WriteClustersFails
    \/ NextMatcher
    \/ WriteGeojsonFails
    \/ WriteCsvFails

SpecFault == InitFault /\ [][NextFault]_vars

----------------------------------------------------------------------------
(* The three programs started by an operator in any order, cluster.ts and
   har_to_trails.ts possibly at once with enrich.ts. writeFile opens its path
   truncated and closes it once the text is written: between the two the
   file holds a cut-short text, which JSON.parse rejects. *)

(* everything of the enrich.ts run *)
matcherRun == <<mpc, merr, clustersData, trails, mk, intersecting, features, csvRows,
                warnings, geojsonFile, csvFile, readyAtStart>>

(* a writeFile of data/trails.json opening the file, which leaves it empty *)
OpenTrails ==
    /\ trailsFile # Malformed
    /\ trailsFile' = Malformed
    /\ UNCHANGED <<matcherRun, trailSource>>
    /\ UNCHANGED cvars

(* the same writeFile completing *)
WriteTrails ==
    /\ trailsFile = Malformed
    /\ trailsFile' = [type |-> "FeatureCollection", features |-> trailSource]
    /\ UNCHANGED <<matcherRun, trailSource>>
    /\ UNCHANGED cvars

(* har_to_trails.ts lines 144-145, and the versions of part_000 lines 171-172
   and 438-439 *)
HarToTrailsOpen == trailSource \in ListsOf(HarTrails, HarSample) /\ OpenTrails

HarToTrailsWrite == trailSource \in ListsOf(HarTrails, HarSample) /\ WriteTrails

(* har_to_trails.ts lines 271-272, its second main, and the version of
   part_000 lines 269-270 *)
HarToTrailsWinterOpen ==
    trailSource \in ListsOf(HarWinterTrails, HarWinterSample) /\ OpenTrails

HarToTrailsWinterWrite ==
    trailSource \in ListsOf(HarWinterTrails, HarWinterSample) /\ WriteTrails

InitPipeline ==
    /\ files \in PrereqDirectories
    /\ ClusterIdle
    /\ trailsFile = Missing
    /\ trailSource \in TrailSources
    /\ MatcherIdle
    /\ OutputLeft

NextPipeline ==
    \/ NextCluster
    \/ HarToTrailsOpen
    \/ HarToTrailsWrite
    \/ HarToTrailsWinterOpen
    \/ HarToTrailsWinterWrite
    \/ NextMatcher

SpecPipeline == InitPipeline /\ [][NextPipeline]_vars

----------------------------------------------------------------------------
(* Vocabulary of the properties *)

Range(s) == {s[k] : k \in 1..Len(s)}

(* the groups of indices the run has formed *)
Groups == MapValues(clusters)

(* the positions <<g, k>> at which index i occurs in the groups *)
PositionsOf(groups, i) ==
    {gk \in (1..Len(groups)) \X (1..Len(photos)) :
        gk[2] <= Len(groups[gk[1]]) /\ groups[gk[1]][gk[2]] = i}

(* the positions <<c, k>> at which a filename occurs in the written clusters *)
MemberPositions(written, name) ==
    {ck \in (1..Len(written)) \X (1..Len(photos)) :
        ck[2] <= Len(written[ck[1]].photos)
        /\ written[ck[1]].photos[ck[2]].filename = name}

RECURSIVE SumLen(_)
SumLen(ss) == IF ss = <<>> THEN 0 ELSE Len(Head(ss)) + SumLen(Tail(ss))

(* squared metres between two photos *)
SqMetres(a, b) == (a.lat - b.lat) * (a.lat - b.lat) + (a.lon - b.lon) * (a.lon - b.lon)

Near(i, j) ==
    SqMetres(photos[i], photos[j]) <= cluster_threshold_m * cluster_threshold_m

(* the indices joined to the set S by a chain of near pairs *)
RECURSIVE ChainFrom(_)
ChainFrom(S) ==
    LET T == S \cup {j \in 1..Len(photos) : \E i \in S : Near(i, j)}
    IN  IF T = S THEN S ELSE ChainFrom(T)

SameGroup(groups, i, j) ==
    \E g \in 1..Len(groups) : i \in Range(groups[g]) /\ j \in Range(groups[g])

(* C1: every index 1..N occurs exactly once in the groups returned by
   singleLinkageCluster, and every observation occurs exactly once among the
   members of the written clusters *)
C1_ClusteringPartition ==
    /\ cpc \in {"write", "done"} =>
          /\ \A i \in 1..Len(photos) : Cardinality(PositionsOf(Groups, i)) = 1
          /\ SumLen(Groups) = Len(photos)
    /\ cpc = "done" =>
          /\ \A f \in 1..Len(photos) :
                Cardinality(MemberPositions(clustersFile.clusters, photos[f].filename)) = 1
          /\ SumLen([c \in 1..Len(clustersFile.clusters) |->
                        clustersFile.clusters[c].photos]) = Len(photos)

C1_Witness ==
    /\ cpc = "done"
    /\ Len(photos) = 3
    /\ Len(clustersFile.clusters) = 2

(* C2: two observations are in the same cluster exactly when a chain of
   observations, each within the threshold of the next (distance exactly the
   threshold included), connects them *)
C2_ThresholdCorrectness ==
    cpc \in {"write", "done"} =>
        \A i, j \in 1..Len(photos) : SameGroup(Groups, i, j) <=> j \in ChainFrom({i})

C2_Witness ==
    /\ cpc = "done"
    /\ Len(photos) = 3
    /\ Len(Groups) = 1
    /\ ~ Near(1, 3)
    /\ SqMetres(photos[1], photos[2]) = cluster_threshold_m * cluster_threshold_m

(* C3: with no usable observation the run ends in the fatal state and
   data/clusters.json is never opened for writing; a written file holds a
   cluster *)
C3_EmptyInputFatal ==
    /\ (runs >= 1 /\ cpc # "load" /\ Len(photos) = 0) => cpc = "fatal"
    /\ (\A f \in 1..Len(files) : files[f].gps = NoGps) => clustersFile = Missing
    /\ clustersFile \notin {Missing, Malformed} => Len(clustersFile.clusters) >= 1

C3_Witness ==
    /\ cpc = "fatal"
    /\ Len(files) = 2
    /\ clustersFile = Missing

(* the largest of a non-empty set of integers *)
SetMax(S) == CHOOSE m \in S : \A x \in S : x <= m

MemberCm(c, k) ==
    Round2(distance(point(c.center.lon, c.center.lat), PhotoPoint(c.photos[k])))

(* C4: radius_m of every written cluster is the largest member-to-center
   distance rounded to 2 decimals, is not negative, and is 0 for a cluster
   of one member *)
C4_RadiusCorrectness ==
    cpc = "done" =>
        \A c \in Range(clustersFile.clusters) :
            /\ c.radius_m = SetMax({MemberCm(c, k) : k \in 1..Len(c.photos)})
            /\ c.radius_m >= 0
            /\ Len(c.photos) = 1 => c.radius_m = 0

C4_Witness ==
    /\ cpc = "done"
    /\ \E c \in Range(clustersFile.clusters) :
          /\ Len(c.photos) = 3
          /\ 0 < MemberCm(c, 3)
          /\ MemberCm(c, 3) < c.radius_m

(* C5: center.lat and center.lon of every written cluster are the sum of its
   own members' lat and lon divided by its member count *)
C5_CenterIsMean ==
    cpc = "done" =>
        \A c \in Range(clustersFile.clusters) :
            /\ c.center.lat.den > 0
            /\ c.center.lon.den > 0
            /\ c.center.lat.num * Len(c.photos) = SumLat(c.photos) * c.center.lat.den
            /\ c.center.lon.num * Len(c.photos) = SumLon(c.photos) * c.center.lon.den

C5_Witness ==
    /\ cpc = "done"
    /\ Len(clustersFile.clusters) = 2
    /\ \E c \in Range(clustersFile.clusters) :
          /\ Len(c.photos) = 2
          /\ c.center.lat.den = 2
          /\ c.center.lat # c.center.lon

AllWritten ==
    (IF clustersFile \in {Missing, Malformed} THEN {} ELSE Range(clustersFile.clusters))
    \cup (IF prevClusters \in {Missing, Malformed} THEN {}
          ELSE Range(prevClusters.clusters))

(* the observation lists of one or two photographs *)
OtherLists ==
    {loadPhotoMeta(MkFiles(g)) :
        g \in UNION {[1..n -> GpsValues \ {NoGps}] : n \in 1..2}}

(* every cluster that cluster.ts writes for one of these lists *)
OtherClusters ==
    UNION {Range(ClusterResult(ph, singleLinkageCluster(ph, cluster_threshold_m))) :
              ph \in OtherLists}

(* C6: a second run on the same observation list writes the file the first
   run wrote; what a run writes is the value of singleLinkageCluster and of
   the record construction on the list and the threshold, whatever an
   earlier run left; and a cluster written has the cluster_id of every
   cluster with the same center, written by this run or for another
   observation list, whatever the members of the two *)
C6_Determinism ==
    /\ (runs >= 2 /\ cpc = "done") => clustersFile = prevClusters
    /\ cpc = "done" =>
          clustersFile.clusters =
              ClusterResult(loadPhotoMeta(files),
                            singleLinkageCluster(loadPhotoMeta(files), cluster_threshold_m))
    /\ \A a \in AllWritten : \A b \in AllWritten \cup OtherClusters :
          a.center = b.center => a.cluster_id = b.cluster_id

(* a second run has written a cluster whose center is that of a cluster of
   another observation list with other members *)
C6_Witness ==
    /\ runs = 2
    /\ cpc = "done"
    /\ clustersFile = prevClusters
    /\ \E a \in Range(clustersFile.clusters) : \E b \in OtherClusters :
          /\ a.center = b.center
          /\ Len(a.photos) # Len(b.photos)
          /\ a.photos[1].lat # b.photos[1].lat

(* the groups as a set of sets of filenames *)
NamePartition(ph, groups) ==
    {{ph[g[k]].filename : k \in 1..Len(g)} : g \in Range(groups)}

Permuted(ph, pi) == [k \in 1..Len(ph) |-> ph[pi[k]]]

(* C7: whatever the order in which the pairs are unioned, and whatever the
   order of the observations, the set of member sets is the one the
   sequential loop over i < j produces *)
C7_OrderIndependence ==
    cpc \in {"write", "done"} =>
        LET seqPartition ==
                NamePartition(photos, singleLinkageCluster(photos, cluster_threshold_m))
        IN  /\ NamePartition(photos, Groups) = seqPartition
            /\ \A pi \in Permutations(1..Len(photos)) :
                  NamePartition(Permuted(photos, pi),
                                singleLinkageCluster(Permuted(photos, pi),
                                                     cluster_threshold_m))
                  = seqPartition

C7_Witness ==
    /\ cpc = "write"
    /\ Len(photos) = 3
    /\ Len(Groups) = 1
    /\ clusters # GroupLoop(UnionLoop(NewParent(3), photos, 1, 2, cluster_threshold_m),
                            <<>>, 1, 3).clusters

(* the claim's criterion: some segment of the trail lies within
   radius_m + buffer_m of the cluster center *)
Passes(c, t) ==
    LET coords == t.geometry.coordinates
        reach == c.radius_m + 100 * intersection_buffer_m
    IN  \E k \in 1..(Len(coords) - 1) :
            LET d == distanceToSegment(point(c.center.lon, c.center.lat),
                                       coords[k], coords[k + 1])
            IN  FracLeq(d.num, d.den, reach * reach, 10000)

(* the trails with at least 2 coordinates that pass by the cluster *)
PassingTrails(c) ==
    {t \in 1..Len(trails) : HasCoords(trails[t]) /\ Passes(c, trails[t])}

PhotoNames(c) == [k \in 1..Len(c.photos) |-> c.photos[k].filename]

(* C8: the Matcher holds one record per cluster processed, writes exactly
   one record for every input cluster, and a cluster that no trail passes is
   written with trail_count = 0 *)
C8_OneRecordPerCluster ==
    /\ mpc \in {"loop", "sort"} => Len(features) = mk - 1
    /\ mpc = "done" =>
          LET out == geojsonFile.features
              cls == clustersData.clusters
          IN  /\ Len(out) = Len(cls)
              /\ \A k \in 1..Len(cls) :
                    LET recs == {r \in 1..Len(out) :
                                    out[r].properties.photos = PhotoNames(cls[k])}
                    IN  /\ Cardinality(recs) = 1
                        /\ PassingTrails(cls[k]) = {} =>
                              \A r \in recs : out[r].properties.trail_count = 0

C8_Witness ==
    /\ mpc = "done"
    /\ Len(clustersData.clusters) = 2
    /\ Len(geojsonFile.features) = 2
    /\ geojsonFile.features[1].properties.trail_count = 1
    /\ geojsonFile.features[2].properties.trail_count = 0

(* the cluster_id of the clusters among the first n that no trail passes *)
ZeroMatchIds(cls, n) ==
    LET zero == SelectSeq([k \in 1..n |-> k], LAMBDA k : PassingTrails(cls[k]) = {})
    IN  [z \in 1..Len(zero) |-> cls[zero[z]].cluster_id]

(* C9: the warnings of a run are one per processed cluster that no trail
   passes, in cluster order, and none for the others; a run that warned is
   not in the fatal state and its finished run has written both files with
   every cluster *)
C9_WarningPerZeroMatch ==
    /\ mpc \in {"loop", "sort", "done"} =>
          warnings = ZeroMatchIds(clustersData.clusters, mk - 1)
    /\ mpc = "fatal" => warnings = <<>>
    /\ mpc = "done" =>
          /\ geojsonFile # Missing
          /\ csvFile # Missing
          /\ Len(geojsonFile.features) = Len(clustersData.clusters)
          /\ Len(csvFile.rows) = Len(clustersData.clusters) + 1

C9_Witness ==
    /\ mpc = "done"
    /\ Len(clustersData.clusters) = 2
    /\ Len(warnings) = 1
    /\ features[1].properties.trail_count = 0
    /\ features[2].properties.trail_count = 2

(* C10: for the cluster just processed, a trail with at least 2 coordinates
   is among the matched trails exactly when its least distance to the
   cluster center is <= radius_m + buffer_m, and trail_count counts them *)
C10_MatchingCriterion ==
    (mpc \in {"loop", "sort", "done"} /\ mk > 1) =>
        LET c == clustersData.clusters[mk - 1]
        IN  /\ \A t \in 1..Len(trails) :
                  HasCoords(trails[t]) =>
                      (t \in Range(intersecting) <=> Passes(c, trails[t]))
            /\ Len(intersecting) = Cardinality(PassingTrails(c))
            /\ features[mk - 1].properties.trail_count = Cardinality(PassingTrails(c))

(* a matched trail at exactly radius_m + buffer_m of a cluster of radius > 0 *)
C10_Witness ==
    /\ mpc \in {"loop", "sort", "done"}
    /\ mk > 1
    /\ LET c == clustersData.clusters[mk - 1]
           reach == c.radius_m + 100 * intersection_buffer_m
       IN  /\ c.radius_m > 0
           /\ \E k \in 1..Len(intersecting) :
                 LET d == pointToLineDistance(point(c.center.lon, c.center.lat),
                              trails[intersecting[k]].geometry.coordinates)
                 IN  FracLeq(reach * reach, 10000, d.num, d.den)

(* the buffers intersection_buffer_m may be configured to, in metres *)
Buffers == {15 * b : b \in 0..MaxBuffer}

(* the trails matched by a cluster when intersection_buffer_m is b *)
MatchedUnder(c, b) ==
    {t \in 1..Len(trails) : IntersectsWithin(c, trails[t], c.radius_m + 100 * b)}

(* the same for every buffer, the distance of lines 58-59 taken once *)
MatchedUnderEach(c) ==
    LET usable == {t \in 1..Len(trails) : Len(trails[t].geometry.coordinates) >= 2}
        dist == [t \in usable |->
                    pointToLineDistance(point(c.center.lon, c.center.lat),
                                        trails[t].geometry.coordinates)]
    IN  [b \in Buffers |->
            {t \in usable : WithinBuffer(dist[t], c.radius_m + 100 * b)}]

(* C11: for the clusters and trails a run has gone through and any two
   buffers b1 <= b2, the trails a cluster matches under b1 are among those
   it matches under b2, so that its trail_count under b2 is at least that
   under b1; the trails the run matched are those of the configured buffer *)
C11_MatcherMonotonicity ==
    /\ mpc = "sort" =>
          \A k \in 1..Len(clustersData.clusters) :
              LET matched == MatchedUnderEach(clustersData.clusters[k])
              IN  \A b1, b2 \in Buffers :
                      b1 <= b2 =>
                          /\ matched[b1] \subseteq matched[b2]
                          /\ Cardinality(matched[b1]) <= Cardinality(matched[b2])
    /\ (mpc \in {"loop", "sort", "done"} /\ mk > 1) =>
          LET now == MatchedUnder(clustersData.clusters[mk - 1], intersection_buffer_m)
          IN  /\ Range(intersecting) = now
              /\ features[mk - 1].properties.trail_count = Cardinality(now)

(* a cluster that matches one trail under 30 m and one more under 45 m *)
C11_Witness ==
    /\ mpc = "done"
    /\ \E k \in 1..Len(clustersData.clusters) :
          LET c == clustersData.clusters[k]
          IN  /\ Cardinality(MatchedUnder(c, 15)) = 0
              /\ Cardinality(MatchedUnder(c, 30)) = 1
              /\ Cardinality(MatchedUnder(c, 45)) = 2

(* the trail records of the run that have fewer than 2 coordinates *)
DegenerateTrails == {t \in 1..Len(trails) : ~ HasCoords(trails[t])}

(* the cluster list has been read and the trail collection holds a record
   with fewer than 2 coordinates beside a record with 2 or more *)
DegenerateRun ==
    /\ mpc \in {"fatal", "loop", "sort", "done"}
    /\ "clusters" \in DOMAIN clustersData
    /\ DegenerateTrails # {}
    /\ \E t \in 1..Len(trails) : HasCoords(trails[t])

(* no record with fewer than 2 coordinates is matched, and the finished run
   has written one Intersection per cluster *)
DegenerateExcluded ==
    /\ mpc # "fatal"
    /\ mk > 1 => Range(intersecting) \cap DegenerateTrails = {}
    /\ \A k \in 1..Len(features) :
          features[k].properties.trail_count
            = Cardinality(PassingTrails(clustersData.clusters[k]))
    /\ mpc = "done" =>
          /\ geojsonFile # Missing
          /\ Len(geojsonFile.features) = Len(clustersData.clusters)
          /\ Len(csvFile.rows) = Len(clustersData.clusters) + 1

(* C12: when the trail collection holds a record with fewer than 2
   coordinates, the run does not fail, matches the record with no cluster
   and writes one Intersection per cluster.  Stated for the collections
   that also hold a record with 2 or more coordinates: a collection
   without one ends in NoTrailGeometry *)
C12_DegenerateNeverFatal == DegenerateRun => DegenerateExcluded

(* the clusters of the run that no trail passes *)
ZeroMatchClusters ==
    {k \in 1..Len(clustersData.clusters) : PassingTrails(clustersData.clusters[k]) = {}}

(* C13: the finished run has recorded one warning for each trail record left
   out for having fewer than 2 coordinates and one for each cluster that
   matched no trail *)
C13_EveryConditionReported ==
    mpc = "done" =>
        Len(warnings) = Cardinality(DegenerateTrails) + Cardinality(ZeroMatchClusters)

(* the cluster an Intersection record was made from *)
ClusterOfRecord(f) ==
    CHOOSE k \in 1..Len(clustersData.clusters) :
        PhotoNames(clustersData.clusters[k]) = f.properties.photos

(* the trails that pass the cluster, in the order of the trail collection *)
PassingInOrder(c) ==
    SelectSeq([t \in 1..Len(trails) |-> t], LAMBDA t : t \in PassingTrails(c))

(* C14: trail_count of every Intersection, in the list built, in the geojson
   written and in the csv written, is the number of trail records that pass
   its cluster, each record counted, whatever their names *)
C14_TrailCountCountsRecords ==
    /\ mpc \in {"loop", "sort", "done"} =>
          \A k \in 1..Len(features) :
              features[k].properties.trail_count
                = Len(PassingInOrder(clustersData.clusters[k]))
    /\ mpc = "done" =>
          \A r \in 1..Len(geojsonFile.features) :
              LET f == geojsonFile.features[r]
                  c == clustersData.clusters[ClusterOfRecord(f)]
              IN  /\ f.properties.trail_count = Len(PassingInOrder(c))
                  /\ csvFile.rows[r + 1][2] = Len(PassingInOrder(c))

(* two matched trail records of the same name, counted as two *)
C14_Witness ==
    /\ mpc = "done"
    /\ \E r \in 1..Len(geojsonFile.features) :
          LET f == geojsonFile.features[r]
          IN  /\ f.properties.trail_count = 2
              /\ f.properties.trail_names = <<"Sunflower", "Sunflower">>
              /\ trails[1] # trails[2]

(* C15: trail_names of every Intersection holds, for each trail that passes
   its cluster and in the order of the trail collection, the name of the
   trail, or "Unknown" when it has no name or an empty one; its length is
   trail_count *)
C15_TrailNamesInOrder ==
    mpc \in {"loop", "sort", "done"} =>
        \A k \in 1..Len(features) :
            LET f == features[k]
                passing == PassingInOrder(clustersData.clusters[k])
            IN  /\ Len(f.properties.trail_names) = f.properties.trail_count
                /\ Len(f.properties.trail_names) = Len(passing)
                /\ \A i \in 1..Len(passing) :
                      LET props == trails[passing[i]].properties
                      IN  f.properties.trail_names[i]
                            = IF "name" \in DOMAIN props /\ props.name # ""
                              THEN props.name ELSE "Unknown"

(* a nameless trail listed before a named one *)
C15_Witness ==
    /\ mpc = "done"
    /\ \E r \in 1..Len(geojsonFile.features) :
          geojsonFile.features[r].properties.trail_names = <<"Unknown", "Sunflower">>

ActivityFlags == {"snowshoe", "nordic_ski", "winter_fat_bike", "summer_mtb"}

(* C16: each activity flag of every Intersection is true exactly when some
   trail that passes its cluster has the flag set to true; a trail without
   the flag counts as false, and no passing trail gives four false flags *)
C16_ActivityFlagsAreOr ==
    mpc \in {"loop", "sort", "done"} =>
        \A k \in 1..Len(features) :
            \A flag \in ActivityFlags :
                LET passing == PassingTrails(clustersData.clusters[k])
                IN  /\ features[k].properties[flag] \in BOOLEAN
                    /\ features[k].properties[flag]
                          <=> \E t \in passing :
                                  /\ flag \in DOMAIN trails[t].properties
                                  /\ trails[t].properties[flag] = TRUE
                    /\ passing = {} => features[k].properties[flag] = FALSE

(* two matched trails, one of them without the snowshoe flag *)
C16_Witness ==
    /\ mpc = "done"
    /\ \E k \in 1..Len(features) :
          /\ features[k].properties.trail_count = 2
          /\ features[k].properties.snowshoe
          /\ features[k].properties.nordic_ski
          /\ ~ features[k].properties.winter_fat_bike
          /\ \E t \in PassingTrails(clustersData.clusters[k]) :
                "snowshoe" \notin DOMAIN trails[t].properties

(* C17: the records written are in non-increasing order of trail_count and
   are the records built for the clusters, each once; the csv rows follow
   the same order *)
C17_SortedDescending ==
    mpc = "done" =>
        LET out == geojsonFile.features
        IN  /\ \A r \in 1..(Len(out) - 1) :
                  out[r].properties.trail_count >= out[r + 1].properties.trail_count
            /\ Len(out) = Len(features)
            /\ \E pi \in Permutations(1..Len(features)) :
                  \A r \in 1..Len(out) : out[r] = features[pi[r]]
            /\ csvFile.rows[1] = CsvHeader
            /\ \A r \in 1..Len(out) : csvFile.rows[r + 1] = CsvRow(out[r])

(* three records that the sort has reordered *)
C17_Witness ==
    /\ mpc = "done"
    /\ Len(features) = 3
    /\ features[1].properties.trail_count < features[2].properties.trail_count
    /\ geojsonFile.features[3] = features[1]

(* C18: two records of equal trail_count are written in the order of their
   clusters in the cluster collection *)
C18_StableTies ==
    mpc = "done" =>
        LET out == geojsonFile.features
        IN  \A r1, r2 \in 1..Len(out) :
                (r1 < r2 /\ out[r1].properties.trail_count = out[r2].properties.trail_count)
                    => ClusterOfRecord(out[r1]) < ClusterOfRecord(out[r2])

(* a tie of two records behind or ahead of a third *)
C18_Witness ==
    /\ mpc = "done"
    /\ Len(geojsonFile.features) = 3
    /\ geojsonFile.features[1].properties.trail_count = 1
    /\ geojsonFile.features[2].properties.trail_count = 1
    /\ geojsonFile.features[3].properties.trail_count = 0
    /\ features[1].properties.trail_count = 0

(* readFile or JSON.parse fails on the file *)
Unreadable(file) == file \in {Missing, Malformed}

(* a step that takes the run of enrich.ts on from the position at *)
MatcherLeaves(at) == mpc = at /\ mpc' # at

(* C19: a run started when data/clusters.json or data/trails.json cannot be
   read or parsed ends in the fatal state at the read of the file, its error
   line names the file and the script to run first, no cluster is processed
   and neither data/intersections.geojson nor data/intersections.csv is
   opened or written *)
C19_MissingPrerequisiteFatal ==
    /\ [](~ readyAtStart => mpc \in {"idle", "begun", "readTrails", "fatal"})
    /\ []((~ readyAtStart /\ mpc = "fatal") =>
            /\ merr = IF Unreadable(clustersFile)
                      THEN [error |-> "Could not read", path |-> "data/clusters.json",
                            run |-> "cluster.ts"]
                      ELSE [error |-> "Could not read", path |-> "data/trails.json",
                            run |-> "fetch_trails.ts"]
            /\ features = <<>>
            /\ warnings = <<>>)
    /\ [][(MatcherLeaves("begun") /\ Unreadable(clustersFile)) =>
              (mpc' = "fatal" /\ UNCHANGED <<features, geojsonFile, csvFile>>)]_vars
    /\ [][(MatcherLeaves("readTrails") /\ Unreadable(trailsFile)) =>
              (mpc' = "fatal" /\ UNCHANGED <<features, geojsonFile, csvFile>>)]_vars
    /\ [][(~ readyAtStart' /\ mpc' # "begun") => UNCHANGED <<geojsonFile, csvFile>>]_vars

(* a fatal run that read the clusters and could not parse the trails *)
C19_Witness ==
    /\ mpc = "fatal"
    /\ merr.path = "data/trails.json"
    /\ trailsFile = Malformed
    /\ "clusters" \in DOMAIN clustersData
    /\ Len(clustersData.clusters) = 2
    /\ geojsonFile = Missing
    /\ csvFile = Missing

(* C20: a run is finished, and the intersections files are written, only
   from a cluster list that holds a cluster and a trail collection that
   holds a trail of 2 or more coordinates; no file without a record is
   written *)
C20_NoEmptyOrPartialData ==
    /\ mpc = "done" =>
          /\ Len(clustersData.clusters) >= 1
          /\ \E t \in 1..Len(trails) : HasCoords(trails[t])
    /\ geojsonFile \notin {Missing, Malformed} => Len(geojsonFile.features) >= 1
    /\ csvFile \notin {Missing, Malformed} => Len(csvFile.rows) >= 2

(* C23: every Intersection built, and every one written, has the cluster_id,
   center.lat, center.lon and radius_m of its own cluster and the filenames
   of that cluster's members in member order *)
C23_ClusterDataCopied ==
    /\ mpc \in {"loop", "sort", "done"} =>
          \A k \in 1..Len(features) :
              LET c == clustersData.clusters[k]
                  pr == features[k].properties
              IN  /\ pr.cluster_id = c.cluster_id
                  /\ pr.lat = c.center.lat
                  /\ pr.lon = c.center.lon
                  /\ pr.radius_m = c.radius_m
                  /\ Len(pr.photos) = Len(c.photos)
                  /\ \A i \in 1..Len(c.photos) : pr.photos[i] = c.photos[i].filename
                  /\ features[k].geometry.coordinates = <<c.center.lon, c.center.lat>>
    /\ mpc = "done" =>
          \A r \in 1..Len(geojsonFile.features) :
              \E k \in 1..Len(clustersData.clusters) :
                  LET c == clustersData.clusters[k]
                      pr == geojsonFile.features[r].properties
                  IN  /\ pr.cluster_id = c.cluster_id
                      /\ pr.lat = c.center.lat
                      /\ pr.lon = c.center.lon
                      /\ pr.radius_m = c.radius_m
                      /\ pr.photos = PhotoNames(c)

(* two records written for clusters of different centers *)
C23_Witness ==
    /\ mpc = "done"
    /\ Len(geojsonFile.features) = 2
    /\ geojsonFile.features[1].properties.lat # geojsonFile.features[2].properties.lat
    /\ geojsonFile.features[1].properties.lat # geojsonFile.features[1].properties.lon
    /\ geojsonFile.features[1].properties.photos = <<2>>

(* the files of the directory that have GPS tags *)
GpsFiles == SelectSeq(files, LAMBDA f : f.gps # NoGps)

NoGpsNames == {files[f].filename : f \in {g \in 1..Len(files) : files[g].gps = NoGps}}

(* C24: a run warns once for each file without GPS as it comes to it, and
   has warned for all of them once the load is over; no such file is a
   member of a cluster, every file with GPS is, and the clusters written are
   those of the directory with the files without GPS removed *)
C24_NoGpsSkipped ==
    /\ cpc = "load" =>
          /\ skipped = SelectSeq([k \in 1..(ci - 1) |-> files[k].filename],
                                 LAMBDA name : name \in NoGpsNames)
          /\ Len(photos) + Len(skipped) = ci - 1
    /\ (runs >= 1 /\ cpc # "load") =>
          /\ Range(skipped) = NoGpsNames
          /\ Len(skipped) = Len(files) - Len(GpsFiles)
          /\ Len(photos) = Len(GpsFiles)
    /\ cpc = "done" =>
          /\ \A c \in Range(clustersFile.clusters) :
                \A k \in 1..Len(c.photos) : c.photos[k].filename \notin NoGpsNames
          /\ \A f \in 1..Len(GpsFiles) :
                \E c \in Range(clustersFile.clusters) :
                    \E k \in 1..Len(c.photos) : c.photos[k].filename = GpsFiles[f].filename
          /\ clustersFile.clusters
                = ClusterResult(loadPhotoMeta(GpsFiles),
                                singleLinkageCluster(loadPhotoMeta(GpsFiles),
                                                     cluster_threshold_m))

(* a finished run over two photos with GPS and one without, in between *)
C24_Witness ==
    /\ cpc = "done"
    /\ Len(files) = 3
    /\ files[2].gps = NoGps
    /\ skipped = <<2>>
    /\ Len(clustersFile.clusters) = 1
    /\ Len(clustersFile.clusters[1].photos) = 2

(* C25: the csv written has the header first and one row per feature of the
   geojson written, the k-th row holding the cluster_id, trail_count, names,
   flags, lat, lon, radius_m and photos of the k-th feature *)
C25_CsvAlignedWithGeojson ==
    mpc = "done" =>
        LET out == geojsonFile.features
        IN  /\ Len(csvFile.rows) = Len(out) + 1
            /\ csvFile.rows[1] = <<"cluster_id", "trail_count", "trail_names", "snowshoe",
                              "nordic_ski", "winter_fat_bike", "summer_mtb", "lat",
                              "lon", "radius_m", "photos">>
            /\ \A k \in 1..Len(out) :
                  LET row == csvFile.rows[k + 1]
                      pr == out[k].properties
                  IN  /\ Len(row) = 11
                      /\ row[1] = pr.cluster_id
                      /\ row[2] = pr.trail_count
                      /\ row[3] = pr.trail_names
                      /\ row[4] = pr.snowshoe
                      /\ row[5] = pr.nordic_ski
                      /\ row[6] = pr.winter_fat_bike
                      /\ row[7] = pr.summer_mtb
                      /\ row[8] = pr.lat
                      /\ row[9] = pr.lon
                      /\ row[10] = pr.radius_m
                      /\ row[11] = pr.photos

(* three rows that follow three features the sort has reordered *)
C25_Witness ==
    /\ mpc = "done"
    /\ Len(csvFile.rows) = 4
    /\ csvRows[2][2] = 0
    /\ csvFile.rows[2][2] = 1
    /\ csvFile.rows[4][11] = features[1].properties.photos

(* the position in photos of the photo of a filename *)
PhotoPosition(name) == CHOOSE k \in 1..Len(photos) : photos[k].filename = name

(* C28: the groups returned, and the clusters written, are non-empty, list
   their members in ascending order of position in the observation list,
   and come in ascending order of the position of their first member *)
C28_OutputOrder ==
    /\ cpc \in {"write", "done"} =>
          /\ \A g \in 1..Len(Groups) :
                /\ Len(Groups[g]) >= 1
                /\ \A k \in 1..(Len(Groups[g]) - 1) : Groups[g][k] < Groups[g][k + 1]
          /\ \A g \in 1..(Len(Groups) - 1) : Groups[g][1] < Groups[g + 1][1]
    /\ cpc = "done" =>
          LET cls == clustersFile.clusters
          IN  /\ \A c \in 1..Len(cls) :
                    /\ Len(cls[c].photos) >= 1
                    /\ \A k \in 1..(Len(cls[c].photos) - 1) :
                          PhotoPosition(cls[c].photos[k].filename)
                            < PhotoPosition(cls[c].photos[k + 1].filename)
              /\ \A c \in 1..(Len(cls) - 1) :
                    PhotoPosition(cls[c].photos[1].filename)
                      < PhotoPosition(cls[c + 1].photos[1].filename)

(* the first and third photo in one cluster, written before the second *)
C28_Witness ==
    /\ cpc = "done"
    /\ Len(photos) = 3
    /\ Len(clustersFile.clusters) = 2
    /\ Len(clustersFile.clusters[1].photos) = 2
    /\ clustersFile.clusters[1].photos[2].filename = photos[3].filename
    /\ clustersFile.clusters[2].photos[1].filename = photos[2].filename

(* C29: in every cluster written, distance_from_center_m of every member is
   >= 0 and <= radius_m, and that of at least one member equals radius_m *)
C29_MemberDistanceWithinRadius ==
    cpc = "done" =>
        \A c \in Range(clustersFile.clusters) :
            /\ \A k \in 1..Len(c.photos) :
                  /\ c.photos[k].distance_from_center_m >= 0
                  /\ c.photos[k].distance_from_center_m <= c.radius_m
            /\ \E k \in 1..Len(c.photos) :
                  c.photos[k].distance_from_center_m = c.radius_m

(* a cluster whose radius is not a whole number of metres, with a member
   nearer to the center than the radius *)
C29_Witness ==
    /\ cpc = "done"
    /\ \E c \in Range(clustersFile.clusters) :
          /\ c.radius_m % 100 # 0
          /\ \E k \in 1..Len(c.photos) :
                /\ c.photos[k].distance_from_center_m > 0
                /\ c.photos[k].distance_from_center_m < c.radius_m

(* C30: clusters written with the same cluster_id are separate records with
   members of their own, and the Matcher writes a record for each of them *)
C30_CollidingIdsKeepRecords ==
    /\ cpc = "done" =>
          LET cls == clustersFile.clusters
          IN  /\ SumLen([c \in 1..Len(cls) |-> cls[c].photos]) = Len(photos)
              /\ \A a, b \in 1..Len(cls) :
                    (a # b /\ cls[a].cluster_id = cls[b].cluster_id) =>
                        /\ cls[a].photos # <<>>
                        /\ cls[b].photos # <<>>
                        /\ Range(PhotoNames(cls[a])) \cap Range(PhotoNames(cls[b])) = {}
    /\ mpc = "done" =>
          LET cls == clustersData.clusters
              out == geojsonFile.features
          IN  /\ Len(out) = Len(cls)
              /\ Len(csvFile.rows) = Len(cls) + 1
              /\ \A a, b \in 1..Len(cls) :
                    (a # b /\ cls[a].cluster_id = cls[b].cluster_id) =>
                        \E ra, rb \in 1..Len(out) :
                            /\ ra # rb
                            /\ out[ra].properties.cluster_id = cls[a].cluster_id
                            /\ out[rb].properties.cluster_id = cls[b].cluster_id
                            /\ out[ra].properties.photos = PhotoNames(cls[a])
                            /\ out[rb].properties.photos = PhotoNames(cls[b])

(* two clusters 60 m apart in one cell, and a record written for each *)
C30_Witness ==
    /\ mpc = "done"
    /\ cpc = "done"
    /\ \E a, b \in 1..Len(clustersFile.clusters) :
          /\ a # b
          /\ clustersFile.clusters[a].cluster_id = clustersFile.clusters[b].cluster_id
          /\ clustersFile.clusters[a].center # clustersFile.clusters[b].center
    /\ \E ra, rb \in 1..Len(geojsonFile.features) :
          /\ ra # rb
          /\ geojsonFile.features[ra].properties.cluster_id
                = geojsonFile.features[rb].properties.cluster_id

(* the element reached from i by k steps along parent *)
RECURSIVE Follow(_, _, _)
Follow(p, i, k) == IF k = 0 THEN i ELSE Follow(p, p[i], k - 1)

RootOf(p, i) == Follow(p, i, Len(p))

(* every parent chain ends, within Len(p) steps, at an element that is its
   own parent *)
IsForest(p) ==
    \A i \in 1..Len(p) : p[i] \in 1..Len(p) /\ p[RootOf(p, i)] = RootOf(p, i)

(* the pairs union has been called on so far *)
UnionsMade == {pr \in AllPairs(Len(photos)) \ pending : Near(pr[1], pr[2])}

(* the elements joined to the set S by the unions made *)
RECURSIVE ConnectedFrom(_)
ConnectedFrom(S) ==
    LET T == S \cup {j \in 1..Len(photos) :
                        \E i \in S : <<i, j>> \in UnionsMade \/ <<j, i>> \in UnionsMade}
    IN  IF T = S THEN S ELSE ConnectedFrom(T)

(* C26: after the unions made so far, in whatever order, and the finds made
   so far, the parent array is a forest; find gives two elements the same
   root exactly when the unions made connect them; and a find, with its
   path compression, leaves a forest in which every element has the root it
   had *)
C26_UnionFindInvariant ==
    cpc \in {"anyorder", "group", "write", "done"} =>
        /\ Len(parent) = Len(photos)
        /\ IsForest(parent)
        /\ LET root == [i \in 1..Len(parent) |-> find(parent, i).root]
           IN  \A a \in 1..Len(parent) :
                 LET joined == ConnectedFrom({a})
                 IN  \A b \in 1..Len(parent) : (root[a] = root[b]) <=> (b \in joined)
        /\ \A i \in 1..Len(parent) :
              LET r == find(parent, i)
              IN  /\ r.root = RootOf(parent, i)
                  /\ IsForest(r.parent)
                  /\ \A a \in 1..Len(parent) : RootOf(r.parent, a) = RootOf(parent, a)

(* a chain of two links, which a find has yet to compress, with a pair left *)
C26_Witness ==
    /\ cpc = "anyorder"
    /\ pending # {}
    /\ \E i \in 1..Len(parent) :
          /\ parent[i] # i
          /\ parent[parent[i]] # parent[i]
          /\ find(parent, i).parent # parent

(* the number of pairs up to <<i, j>> in the order of the loops *)
PairRank(i, j, n) ==
    Cardinality({pr \in AllPairs(n) : pr[1] < i \/ (pr[1] = i /\ pr[2] <= j)})

(* C27: every parent chain ends, so that find terminates; the loops of
   singleLinkageCluster start at the pair <<1, 2>>, go from each pair i < j
   to the next one and leave after the last one, so that each pair is
   examined exactly once; and a run that has read its directory reaches its
   end, clusters written or fatal *)
C27_Termination ==
    /\ [](cpc \in {"union", "group", "write", "writing", "done"} => IsForest(parent))
    /\ [](cpc = "union" => (1 <= ci /\ ci < cj /\ cj <= Len(photos)))
    /\ [][(cpc # "union" /\ cpc' = "union") => (ci' = 1 /\ cj' = 2)]_vars
    /\ [][(cpc = "union" /\ cpc' = "union") =>
              PairRank(ci', cj', Len(photos)) = PairRank(ci, cj, Len(photos)) + 1]_vars
    /\ [][(cpc = "union" /\ cpc' # "union") =>
              /\ cpc' = "group"
              /\ PairRank(ci, cj, Len(photos)) = Cardinality(AllPairs(Len(photos)))]_vars
    /\ [](cpc \in {"load", "union", "group", "write", "writing"}
            => <>(cpc \in {"done", "fatal"}))
    /\ [](cpc \in {"union", "group", "write", "writing"} => <>(cpc = "done"))

(* the loops over three photos at their last pair *)
C27_Witness ==
    /\ cpc = "union"
    /\ Len(photos) = 3
    /\ ci = 2
    /\ cj = 3
    /\ parent[1] # 1

(* C21: a run of either stage that ended in a fatal error has written none of
   the files of its stage: data/clusters.json is as the run found it, and
   data/intersections.geojson is not there without data/intersections.csv *)
C21_NoPartialOutput ==
    /\ cpc = "fatal" => clustersFile = prevClusters
    /\ mpc = "fatal" => ~ (geojsonFile \notin {Missing, Malformed}
                            /\ csvFile \in {Missing, Malformed})

(* what cluster.ts writes for the directory, once its write is complete *)
ClusterOutput ==
    [clusters |-> ClusterResult(loadPhotoMeta(files),
                     singleLinkageCluster(loadPhotoMeta(files), cluster_threshold_m))]

(* the positions of a run of enrich.ts that has read both files *)
PastReads == {"loop", "sort", "writeGeojson", "openCsv", "writeCsv", "done"}

(* C22, as stated: the Matcher writes its output only in runs that began
   when data/clusters.json and data/trails.json had both been completely
   written *)
C22_OutputOnlyIfReadyAtStart == mpc = "done" => readyAtStart

(* C22, amended: a run that got past its reads holds the complete text of
   both files; a read of a file that is absent or being written ends the run
   with the Could-not-read error, both intersections files untouched; and
   these files change only in the steps of a run that got past its reads *)
C22_OutputOnlyFromCompleteReads ==
    /\ [](mpc \in PastReads =>
            /\ clustersData = ClusterOutput
            /\ trails = SelectSeq(trailSource, IsTrail))
    /\ [][(mpc = "begun" /\ mpc' # "begun" /\ clustersFile \in {Missing, Malformed}) =>
              /\ mpc' = "fatal"
              /\ merr' = CouldNotRead(clusters_path, "cluster.ts")
              /\ UNCHANGED <<geojsonFile, csvFile>>]_vars
    /\ [][(mpc = "readTrails" /\ mpc' # "readTrails" /\ trailsFile \in {Missing, Malformed}) =>
              /\ mpc' = "fatal"
              /\ merr' = CouldNotRead(trails_path, "fetch_trails.ts")
              /\ UNCHANGED <<geojsonFile, csvFile>>]_vars
    /\ [][(geojsonFile' # geojsonFile \/ csvFile' # csvFile) =>
              (mpc \in PastReads /\ mpc' \in PastReads)]_vars

(* a run that read data/clusters.json while a second cluster.ts run was
   writing it, an earlier complete one having been there *)
C22_Witness ==
    /\ mpc = "fatal"
    /\ merr = CouldNotRead(clusters_path, "cluster.ts")
    /\ cpc = "writing"
    /\ prevClusters \notin {Missing, Malformed}

====
